---- MODULE Spec2Model ----
(***************************************************************************)
(* Transaction (src/src/Transaction.js): the builder of an atomic set of   *)
(* operations and its commit through ConnectionManager.queue.              *)
(*                                                                         *)
(* JavaScript values are records [t, n, s]: t is the runtime shape, n the  *)
(* number (or the length of an array), s the text (or the name of an       *)
(* object).                                                                *)
(***************************************************************************)
EXTENDS Integers, Sequences, FiniteSets, TLC

VARIABLES ops, requests, log, commits, last

vars == <<ops, requests, log, commits, last>>

(***************************************************************************)
(* Bounds of the model.                                                    *)
(***************************************************************************)
\* Append calls are made while a Transaction holds fewer than MaxOps entries.
MaxOps == 2
\* commit calls are made while fewer than MaxCommits requests were queued.
MaxCommits == 2
\* The dispatcher answers with result arrays of at most MaxResults entries.
MaxResults == 2

(***************************************************************************)
(* JavaScript values.                                                      *)
(***************************************************************************)
Undefined == [t |-> "undefined", n |-> 0, s |-> ""]
Null == [t |-> "null", n |-> 0, s |-> ""]
Num(k) == [t |-> "number", n |-> k, s |-> ""]
Str(x) == [t |-> "string", n |-> 0, s |-> x]
Buf(x) == [t |-> "buffer", n |-> 0, s |-> x]
Arr(name, len) == [t |-> "array", n |-> len, s |-> name]
Fn(name) == [t |-> "function", n |-> 0, s |-> name]
Err(name) == [t |-> "error", n |-> 0, s |-> name]

\* ToBoolean, as `||` and `if` apply it.
Truthy(v) ==
  CASE v.t = "undefined" -> FALSE
    [] v.t = "null" -> FALSE
    [] v.t = "number" -> v.n # 0
    [] v.t = "string" -> v.s # ""
    [] OTHER -> TRUE

\* a || b
Or(a, b) == IF Truthy(a) THEN a ELSE b

\* typeof v
TypeOf(v) ==
  CASE v.t = "undefined" -> "undefined"
    [] v.t = "number" -> "number"
    [] v.t = "string" -> "string"
    [] v.t = "function" -> "function"
    [] OTHER -> "object"

IsArray(v) == v.t = "array"
IsBuffer(v) == v.t = "buffer"

\* data === null || data === undefined || Buffer.isBuffer(data)
DataOk(data) == data = Null \/ data = Undefined \/ IsBuffer(data)

(***************************************************************************)
(* Collaborators of Transaction.js that live outside it.                   *)
(***************************************************************************)
\* Path.validate(path) returns normally: a non-empty string from the root.
ValidPathStrings == {"/a"}
PathValid(path) == path.t = "string" /\ path.s \in ValidPathStrings

OPEN_ACL_UNSAFE == Arr("OPEN_ACL_UNSAFE", 1)
PERSISTENT == Num(0)

\* Exception.OK and Exception.create(code)
ExceptionOK == "OK"
ExceptionCreate(code) == [t |-> "exception", n |-> 0, s |-> code]

(***************************************************************************)
(* The append methods.  Each takes the operation list o and returns the    *)
(* list it leaves, what it threw ("none" when it returned this) and the    *)
(* operation it built.                                                     *)
(***************************************************************************)
NoOp == [type |-> "NONE"]
Thrown(o, what) == [ops |-> o, threw |-> what, op |-> NoOp]

\* this.ops.unshift(op) in place of push
PushFront(o, op) == <<op>> \o o

\* this.ops.push(op)
Push(o, op) == Append(o, op)

\* the slots taken by position, not by shape
ClassifyPositional(optionalArgs, i, acc) ==
  [data |-> optionalArgs[1], acls |-> optionalArgs[2], mode |-> optionalArgs[3]]

\* the scan keeping the first argument of a shape, not the last
RECURSIVE ClassifyFirstWins(_, _, _)
ClassifyFirstWins(optionalArgs, i, acc) ==
  IF i > Len(optionalArgs) THEN acc
  ELSE LET arg == optionalArgs[i] IN
    ClassifyFirstWins(optionalArgs, i + 1,
      IF IsArray(arg) /\ acc.acls = Undefined THEN [acc EXCEPT !.acls = arg]
      ELSE IF TypeOf(arg) = "number" /\ acc.mode = Undefined
        THEN [acc EXCEPT !.mode = arg]
      ELSE IF IsBuffer(arg) /\ acc.data = Undefined THEN [acc EXCEPT !.data = arg]
      ELSE acc)

\* optionalArgs.forEach(arg => ...), from slot i on; acc = [data, acls, mode]
RECURSIVE Classify(_, _, _)
Classify(optionalArgs, i, acc) ==
  IF i > Len(optionalArgs) THEN acc
  ELSE LET arg == optionalArgs[i] IN
    Classify(optionalArgs, i + 1,
      IF IsArray(arg) THEN [acc EXCEPT !.acls = arg]
      ELSE IF TypeOf(arg) = "number" THEN [acc EXCEPT !.mode = arg]
      ELSE IF IsBuffer(arg) THEN [acc EXCEPT !.data = arg]
      ELSE acc)

\* create without assert(acls.length > 0)
createUnchecked(o, path, data, acls, mode) ==
  LET optionalArgs == <<data, acls, mode>> IN
  IF ~PathValid(path) THEN Thrown(o, "path")
  ELSE
    LET c == Classify(optionalArgs, 1,
               [data |-> Undefined, acls |-> Undefined, mode |-> Undefined])
        acls2 == IF IsArray(c.acls) THEN c.acls ELSE OPEN_ACL_UNSAFE
        mode2 == IF TypeOf(c.mode) = "number" THEN c.mode ELSE PERSISTENT
        op == [type |-> "CREATE", path |-> path, data |-> c.data,
               acls |-> acls2, mode |-> mode2]
    IN IF ~DataOk(c.data) THEN Thrown(o, "data")
       ELSE [ops |-> Push(o, op), threw |-> "none", op |-> op]

create(o, path, data, acls, mode) ==
  LET optionalArgs == <<data, acls, mode>> IN
  IF ~PathValid(path) THEN Thrown(o, "path")
  ELSE
    LET c == Classify(optionalArgs, 1,
               [data |-> Undefined, acls |-> Undefined, mode |-> Undefined])
        acls2 == IF IsArray(c.acls) THEN c.acls ELSE OPEN_ACL_UNSAFE
        mode2 == IF TypeOf(c.mode) = "number" THEN c.mode ELSE PERSISTENT
        op == [type |-> "CREATE", path |-> path, data |-> c.data,
               acls |-> acls2, mode |-> mode2]
    IN IF ~DataOk(c.data) THEN Thrown(o, "data")
       ELSE IF ~(acls2.n > 0) THEN Thrown(o, "acls")
       ELSE [ops |-> Push(o, op), threw |-> "none", op |-> op]

\* version = version || -1
VersionOrDefault(version) == Or(version, Num(-1))

\* check with the push moved above the validation
checkEager(o, path, version) ==
  LET version2 == VersionOrDefault(version)
      op == [type |-> "CHECK", path |-> path, version |-> version2]
  IN IF ~PathValid(path) THEN [ops |-> Push(o, op), threw |-> "path", op |-> NoOp]
     ELSE IF TypeOf(version2) # "number"
       THEN [ops |-> Push(o, op), threw |-> "version", op |-> NoOp]
     ELSE [ops |-> Push(o, op), threw |-> "none", op |-> op]

check(o, path, version) ==
  LET version2 == VersionOrDefault(version)
      op == [type |-> "CHECK", path |-> path, version |-> version2]
  IN IF ~PathValid(path) THEN Thrown(o, "path")
     ELSE IF TypeOf(version2) # "number" THEN Thrown(o, "version")
     ELSE [ops |-> Push(o, op), threw |-> "none", op |-> op]

setData(o, path, data, version) ==
  LET version2 == VersionOrDefault(version)
      op == [type |-> "SET_DATA", path |-> path, data |-> data,
             version |-> version2]
  IN IF ~PathValid(path) THEN Thrown(o, "path")
     ELSE IF ~DataOk(data) THEN Thrown(o, "data")
     ELSE IF TypeOf(version2) # "number" THEN Thrown(o, "version")
     ELSE [ops |-> Push(o, op), threw |-> "none", op |-> op]

remove(o, path, version) ==
  LET version2 == VersionOrDefault(version)
      op == [type |-> "DELETE", path |-> path, version |-> version2]
  IN IF ~PathValid(path) THEN Thrown(o, "path")
     ELSE IF TypeOf(version2) # "number" THEN Thrown(o, "version")
     ELSE [ops |-> Push(o, op), threw |-> "none", op |-> op]

(***************************************************************************)
(* commit and the completion handler it queues.                            *)
(***************************************************************************)
\* new jute.TransactionRequest(this.ops): the payload refers to the list of
\* Transaction t itself, not to a copy of it.
TransactionRequest(t) == [ops |-> t]

\* The list a queued payload refers to, as the dispatcher reads it now.
PayloadOps(payload) == ops[payload.ops]

\* commit refusing a Transaction that was committed before
commitGuarded(t, callback) ==
  IF TypeOf(callback) # "function" THEN [threw |-> "callback", queue |-> <<>>]
  ELSE IF \E i \in 1..Len(requests) : requests[i].request.payload.ops = t
    THEN [threw |-> "committed", queue |-> <<>>]
  ELSE
    LET request == [header |-> [type |-> "MULTI"],
                    payload |-> TransactionRequest(t)]
    IN [threw |-> "none",
        queue |-> <<[request |-> request, callback |-> callback]>>]

\* commit without header.type = jute.OP_CODES.MULTI
commitUntagged(t, callback) ==
  IF TypeOf(callback) # "function" THEN [threw |-> "callback", queue |-> <<>>]
  ELSE
    LET request == [header |-> [type |-> "undefined"],
                    payload |-> TransactionRequest(t)]
    IN [threw |-> "none",
        queue |-> <<[request |-> request, callback |-> callback]>>]

\* commit with the assert on callback moved below the queue call
commitLateAssert(t, callback) ==
  LET request == [header |-> [type |-> "MULTI"],
                  payload |-> TransactionRequest(t)]
  IN [threw |-> IF TypeOf(callback) # "function" THEN "callback" ELSE "none",
      queue |-> <<[request |-> request, callback |-> callback]>>]

commit(t, callback) ==
  IF TypeOf(callback) # "function" THEN [threw |-> "callback", queue |-> <<>>]
  ELSE
    LET header == [type |-> "MULTI"]
        payload == TransactionRequest(t)
        request == [header |-> header, payload |-> payload]
    IN [threw |-> "none",
        queue |-> <<[request |-> request, callback |-> callback]>>]

\* the test without `result.err !== Exception.OK`
FailedAnyError(result) == result.type = "ERROR"

\* result.type === jute.OP_CODES.ERROR && result.err !== Exception.OK
Failed(result) == result.type = "ERROR" /\ result.err # ExceptionOK

\* the loop without its break: the last failing entry wins
RECURSIVE ScanResultsLast(_, _)
ScanResultsLast(results, i) ==
  IF i > Len(results) THEN i
  ELSE LET rest == ScanResultsLast(results, i + 1) IN
    IF rest <= Len(results) THEN rest
    ELSE IF results[i].type = "ERROR" /\ results[i].err # ExceptionOK THEN i
    ELSE rest

\* for (i = ...; i < results.length; i += 1) { if (...) break; }: the index
\* the loop stops at, Len(results) + 1 when it runs to the end.
RECURSIVE ScanResults(_, _)
ScanResults(results, i) ==
  IF i > Len(results) THEN i
  ELSE IF Failed(results[i]) THEN i
  ELSE ScanResults(results, i + 1)

\* the handler passing a dispatch error through Exception.create
CommitHandlerWrapped(callback, error, response) ==
  IF Truthy(error)
  THEN [calls |-> <<[fn |-> callback, args |-> <<ExceptionCreate(error.s)>>]>>,
        scanned |-> 0, created |-> <<error.s>>]
  ELSE
    LET results == response.payload.results
        i == ScanResults(results, 1)
        found == i <= Len(results)
        error2 == IF found THEN ExceptionCreate(results[i].err) ELSE error
    IN [calls |-> <<[fn |-> callback, args |-> <<error2, results>>]>>,
        scanned |-> IF found THEN i ELSE Len(results),
        created |-> IF found THEN <<results[i].err>> ELSE <<>>]

\* the handler calling back inside the loop and again after it
CommitHandlerTwice(callback, error, response) ==
  IF Truthy(error)
  THEN [calls |-> <<[fn |-> callback, args |-> <<error>>]>>,
        scanned |-> 0, created |-> <<>>]
  ELSE
    LET results == response.payload.results
        i == ScanResults(results, 1)
        found == i <= Len(results)
        error2 == IF found THEN ExceptionCreate(results[i].err) ELSE error
        call == [fn |-> callback, args |-> <<error2, results>>]
    IN [calls |-> IF found THEN <<call, call>> ELSE <<call>>,
        scanned |-> IF found THEN i ELSE Len(results),
        created |-> IF found THEN <<results[i].err>> ELSE <<>>]

\* (error, response) => { ... }: the calls it makes of callback, the number
\* of result entries it reads and the codes it hands to Exception.create.
CommitHandler(callback, error, response) ==
  IF Truthy(error)
  THEN [calls |-> <<[fn |-> callback, args |-> <<error>>]>>,
        scanned |-> 0, created |-> <<>>]
  ELSE
    LET results == response.payload.results
        i == ScanResults(results, 1)
        found == i <= Len(results)
        error2 == IF found THEN ExceptionCreate(results[i].err) ELSE error
    IN [calls |-> <<[fn |-> callback, args |-> <<error2, results>>]>>,
        scanned |-> IF found THEN i ELSE Len(results),
        created |-> IF found THEN <<results[i].err>> ELSE <<>>]

(***************************************************************************)
(* Inputs.                                                                 *)
(***************************************************************************)
Txs == {"t1", "t2"}

PathArgs == {Str("/a"), Str(""), Num(42)}
VersionArgs == {Undefined, Null, Num(-2), Num(0), Num(1), Str("1")}
DataArgs == {Undefined, Buf("x"), Str("x")}
CreateArgs ==
  {<<Undefined, Undefined, Undefined>>,
   <<Buf("x"), Undefined, Undefined>>,
   <<Buf("x"), Arr("none", 0), Undefined>>,
   <<Arr("none", 0), Undefined, Undefined>>,
   <<Str("x"), Undefined, Num(1)>>,
   <<Undefined, Undefined, Str("x")>>}
CallbackArgs == {Fn("callback"), Undefined}

ResultEntries ==
  {[type |-> "CREATE", err |-> "undefined"],
   [type |-> "ERROR", err |-> ExceptionOK],
   [type |-> "ERROR", err |-> "NO_NODE"],
   [type |-> "ERROR", err |-> "BAD_VERSION"]}
ResultArrays == UNION {[1..k -> ResultEntries] : k \in 0..MaxResults}
DispatchErrors == {Err("ECONNRESET"), ExceptionCreate("CONNECTION_LOSS")}

\* What the dispatcher hands to a completion handler: an error and no
\* response, or no error and a response.
Failure(e) == [error |-> e, response |-> Undefined]
Response(r) == [error |-> Null, response |-> [payload |-> [results |-> r]]]
Completions ==
  {Failure(e) : e \in DispatchErrors} \cup {Response(r) : r \in ResultArrays}

(***************************************************************************)
(* The state machine.  ops[t] is this.ops of Transaction t; requests is    *)
(* what connectionManager.queue was handed, in order; log[t] is the        *)
(* operations the successful append calls on t built, in call order;       *)
(* commits[t] counts the commit calls on t made with a function; last is   *)
(* the last call made and how it ended.                                    *)
(***************************************************************************)
Init ==
  /\ ops = [t \in Txs |-> <<>>]
  /\ log = [t \in Txs |-> <<>>]
  /\ requests = <<>>
  /\ commits = [t \in Txs |-> 0]
  /\ last = [kind |-> "new"]

\* An append call on t with ops kept on the prototype: one list for all
AppendedShared(t, kind, args, r) ==
  /\ Len(ops[t]) < MaxOps
  /\ ops' = [u \in Txs |-> r.ops]
  /\ log' = IF r.threw = "none" THEN [log EXCEPT ![t] = Append(@, r.op)] ELSE log
  /\ last' = [kind |-> kind, tx |-> t, args |-> args, threw |-> r.threw,
              before |-> ops[t], queued |-> Len(requests)]
  /\ UNCHANGED <<requests, commits>>

\* A call of an append method on Transaction t that ended as r.
Appended(t, kind, args, r) ==
  /\ Len(ops[t]) < MaxOps
  /\ ops' = [ops EXCEPT ![t] = r.ops]
  /\ log' = IF r.threw = "none" THEN [log EXCEPT ![t] = Append(@, r.op)] ELSE log
  /\ last' = [kind |-> kind, tx |-> t, args |-> args, threw |-> r.threw,
              before |-> ops[t], queued |-> Len(requests)]
  /\ UNCHANGED <<requests, commits>>

Create(t, paths, slots) ==
  \E path \in paths, a \in slots :
    Appended(t, "create", <<path, a[1], a[2], a[3]>>,
             create(ops[t], path, a[1], a[2], a[3]))

Check(t, paths, versions) ==
  \E path \in paths, version \in versions :
    Appended(t, "check", <<path, version>>, check(ops[t], path, version))

SetData(t, paths, datas, versions) ==
  \E path \in paths, data \in datas, version \in versions :
    Appended(t, "setData", <<path, data, version>>,
             setData(ops[t], path, data, version))

Remove(t, paths, versions) ==
  \E path \in paths, version \in versions :
    Appended(t, "remove", <<path, version>>, remove(ops[t], path, version))

\* commit emptying this.ops once the request is queued
CommitClearing(t, callbacks) ==
  \E callback \in callbacks :
    LET r == commit(t, callback) IN
      /\ Len(requests) < MaxCommits
      /\ requests' = requests \o
           [k \in 1..Len(r.queue) |->
              [request |-> r.queue[k].request,
               callback |-> r.queue[k].callback,
               sent |-> PayloadOps(r.queue[k].request.payload),
               done |-> FALSE, delivered |-> 0]]
      /\ commits' = [commits EXCEPT
           ![t] = IF TypeOf(callback) = "function" THEN @ + 1 ELSE @]
      /\ last' = [kind |-> "commit", tx |-> t, args |-> <<callback>>,
                  threw |-> r.threw, before |-> ops[t],
                  queued |-> Len(requests)]
      /\ ops' = [ops EXCEPT ![t] = IF r.threw = "none" THEN <<>> ELSE @]
      /\ UNCHANGED log

\* this.connectionManager.queue(request, handler): the dispatcher keeps the
\* request; sent is the list its payload referred to at that moment.
Commit(t, callbacks) ==
  \E callback \in callbacks :
    LET r == commit(t, callback) IN
      /\ Len(requests) < MaxCommits
      /\ requests' = requests \o
           [k \in 1..Len(r.queue) |->
              [request |-> r.queue[k].request,
               callback |-> r.queue[k].callback,
               sent |-> PayloadOps(r.queue[k].request.payload),
               done |-> FALSE, delivered |-> 0]]
      /\ commits' = [commits EXCEPT
           ![t] = IF TypeOf(callback) = "function" THEN @ + 1 ELSE @]
      /\ last' = [kind |-> "commit", tx |-> t, args |-> <<callback>>,
                  threw |-> r.threw, before |-> ops[t],
                  queued |-> Len(requests)]
      /\ UNCHANGED <<ops, log>>

\* The dispatcher completes queued request i, once, and runs its handler.
Complete(i, completions) ==
  /\ i \in 1..Len(requests)
  /\ ~requests[i].done
  /\ \E c \in completions :
       LET effect == CommitHandler(requests[i].callback, c.error, c.response) IN
         /\ requests' = [requests EXCEPT ![i].done = TRUE,
                                         ![i].delivered = @ + Len(effect.calls)]
         /\ last' = [kind |-> "complete", req |-> i, error |-> c.error,
                     response |-> c.response, effect |-> effect]
  /\ UNCHANGED <<ops, log, commits>>

(***************************************************************************)
(* Spec: one Transaction, built, committed and completed by a caller that  *)
(* draws its arguments from small sets.                                    *)
(***************************************************************************)
MainPaths == {Str("/a"), Str("")}
MainCreateArgs ==
  {<<Undefined, Undefined, Undefined>>, <<Arr("none", 0), Undefined, Undefined>>}
MainVersions == {Undefined, Num(0), Num(1)}
MainDatas == {Buf("x"), Str("x")}
MainCompletions ==
  {Failure(Err("ECONNRESET")),
   Response(<<[type |-> "CREATE", err |-> "undefined"]>>),
   Response(<<[type |-> "ERROR", err |-> "NO_NODE"]>>)}

Next ==
  \/ Create("t1", MainPaths, MainCreateArgs)
  \/ Check("t1", MainPaths, MainVersions)
  \/ SetData("t1", MainPaths, MainDatas, {Undefined})
  \/ Remove("t1", MainPaths, {Undefined})
  \/ Commit("t1", CallbackArgs)
  \/ \E i \in 1..MaxCommits : Complete(i, MainCompletions)

Spec == Init /\ [][Next]_vars

(***************************************************************************)
(* SpecBuild: the builder alone, its append methods called with every      *)
(* argument of the input sets.                                             *)
(***************************************************************************)
NextBuild ==
  \/ Create("t1", PathArgs, CreateArgs)
  \/ Check("t1", PathArgs, VersionArgs)
  \/ SetData("t1", PathArgs, DataArgs, VersionArgs)
  \/ Remove("t1", PathArgs, VersionArgs)

SpecBuild == Init /\ [][NextBuild]_vars

(***************************************************************************)
(* SpecCommit: commits of a Transaction of check operations, completed by  *)
(* the dispatcher with every completion of the input sets.                 *)
(***************************************************************************)
NextCommit ==
  \/ Check("t1", {Str("/a")}, {Undefined})
  \/ Commit("t1", CallbackArgs)
  \/ \E i \in 1..MaxCommits : Complete(i, Completions)

SpecCommit == Init /\ [][NextCommit]_vars

(***************************************************************************)
(* SpecLive: SpecCommit with a few completions of each outcome (dispatch   *)
(* error, success, transactional error) and a dispatcher that calls back   *)
(* every request it was handed, as queue's contract says.                  *)
(***************************************************************************)
LiveCompletions ==
  MainCompletions \cup
    {Failure(ExceptionCreate("CONNECTION_LOSS")),
     Response(<<>>),
     Response(<<[type |-> "ERROR", err |-> ExceptionOK],
                [type |-> "ERROR", err |-> "BAD_VERSION"]>>)}

NextLive ==
  \/ Check("t1", {Str("/a")}, {Undefined})
  \/ Commit("t1", CallbackArgs)
  \/ \E i \in 1..MaxCommits : Complete(i, LiveCompletions)

SpecLive ==
  /\ Init /\ [][NextLive]_vars
  /\ \A i \in 1..MaxCommits : WF_vars(Complete(i, LiveCompletions))

(***************************************************************************)
(* SpecCreate: create alone, its three optional slots filled in every      *)
(* order with values of every shape, and with two values of one shape.     *)
(***************************************************************************)
Shapes == {"buffer", "array", "number"}
SlotValues ==
  {Undefined, Buf("x"), Arr("acls", 1), Arr("none", 0), Num(1), Str("x")}
TwinValues ==
  {Undefined, Buf("x"), Buf("y"), Arr("acls", 1), Arr("more", 2),
   Num(1), Num(2)}

\* Two slots of a hold different values of one shape, the third is empty.
Ambiguous(a) ==
  \E i, j, k \in 1..3 :
    /\ i < j /\ k \notin {i, j}
    /\ a[i].t \in Shapes /\ a[i].t = a[j].t /\ a[i] # a[j]
    /\ a[k] = Undefined

SlotArgs ==
  [1..3 -> SlotValues] \cup {a \in [1..3 -> TwinValues] : Ambiguous(a)}

NextCreate == Create("t1", {Str("/a")}, SlotArgs)

SpecCreate == Init /\ [][NextCreate]_vars

(***************************************************************************)
(* SpecMulti: two Transactions on the one dispatcher, each committed with  *)
(* a callback of its own; the dispatcher completes in any order.           *)
(***************************************************************************)
CallbackOf == [t \in Txs |-> Fn(t)]

NextMulti ==
  \/ Check("t1", {Str("/a")}, {Undefined})
  \/ Check("t2", {Str("/a"), Str("")}, {Num(1)})
  \/ \E t \in Txs : Commit(t, {CallbackOf[t]})
  \/ \E i \in 1..MaxCommits : Complete(i, MainCompletions)

SpecMulti == Init /\ [][NextMulti]_vars

(***************************************************************************)
(* Properties.                                                             *)
(***************************************************************************)
AppendKinds == {"create", "check", "setData", "remove"}
LastAppend == last.kind \in AppendKinds
LastAppended == LastAppend /\ last.threw = "none"
LastRejected == LastAppend /\ last.threw # "none"
LastCommitted == last.kind = "commit" /\ last.threw = "none"
LastCompleted == last.kind = "complete"
LastResults == last.response.payload.results

\* The requests whose payload refers to the list of Transaction t.
RequestsOf(t) ==
  {i \in 1..Len(requests) : requests[i].request.payload.ops = t}

IsPrefix(a, b) == Len(a) <= Len(b) /\ a = SubSeq(b, 1, Len(a))

\* The failing entries of a result array, by index.
FailingIn(results) ==
  {i \in 1..Len(results) :
     results[i].type = "ERROR" /\ results[i].err # "OK"}
Min(S) == CHOOSE i \in S : \A j \in S : i <= j

\* C1: the operation list is the operations the successful append calls
\* built, in call order: a successful append adds its one entry at the end
\* and leaves the earlier entries alone, and the list commit hands to the
\* dispatcher is that list, in that order.
C1_OpsInCallOrder ==
  /\ \A t \in Txs : ops[t] = log[t]
  /\ LastAppended =>
       /\ Len(ops[last.tx]) = Len(last.before) + 1
       /\ SubSeq(ops[last.tx], 1, Len(last.before)) = last.before
  /\ LastCommitted =>
       /\ requests[Len(requests)].sent = log[last.tx]
       /\ requests[Len(requests)].request.payload = [ops |-> last.tx]
  /\ \A i \in 1..Len(requests) :
       IsPrefix(requests[i].sent, log[requests[i].request.payload.ops])

\* Two different operations were appended and commit handed both over.
C1_Witness ==
  /\ LastCommitted
  /\ Len(ops[last.tx]) >= 2
  /\ ops[last.tx][1] # ops[last.tx][2]
  /\ requests[Len(requests)].sent = ops[last.tx]

\* C2: a completion without dispatch error whose result array has a failing
\* entry calls back with the error built from the code of the first failing
\* entry, and with the result array as the dispatcher returned it.
C2_FirstFailureReported ==
  (LastCompleted /\ ~Truthy(last.error) /\ FailingIn(LastResults) # {}) =>
    last.effect.calls =
      <<[fn |-> requests[last.req].callback,
         args |-> <<ExceptionCreate(LastResults[Min(FailingIn(LastResults))].err),
                    LastResults>>]>>

\* Two entries fail with different codes; the first one's code is reported.
C2_Witness ==
  /\ LastCompleted /\ ~Truthy(last.error)
  /\ Cardinality(FailingIn(LastResults)) >= 2
  /\ \E i, j \in FailingIn(LastResults) : LastResults[i].err # LastResults[j].err
  /\ last.effect.calls[1].args[1] = ExceptionCreate(LastResults[1].err)

\* C3: a completion without dispatch error whose result array has no failing
\* entry (entries of kind error with the OK code included) calls back with
\* no error and the result array unchanged.
C3_SuccessReported ==
  (LastCompleted /\ ~Truthy(last.error) /\ FailingIn(LastResults) = {}) =>
    last.effect.calls =
      <<[fn |-> requests[last.req].callback, args |-> <<Null, LastResults>>]>>

\* An entry of kind error carrying OK, beside a success entry, is no error.
C3_Witness ==
  /\ LastCompleted /\ ~Truthy(last.error)
  /\ FailingIn(LastResults) = {}
  /\ Len(LastResults) >= 2
  /\ \E i \in 1..Len(LastResults) : LastResults[i].type = "ERROR"
  /\ \E i \in 1..Len(LastResults) : LastResults[i].type # "ERROR"
  /\ last.effect.calls[1].args = <<Null, LastResults>>

\* C4: a completion with a dispatch error calls back with that very error
\* and nothing else; no result entry is read and Exception.create is not
\* called.
C4_DispatchErrorVerbatim ==
  (LastCompleted /\ Truthy(last.error)) =>
    /\ last.effect.calls =
         <<[fn |-> requests[last.req].callback, args |-> <<last.error>>]>>
    /\ last.effect.scanned = 0
    /\ last.effect.created = <<>>

\* A transport error came back for a queued commit.
C4_Witness ==
  /\ LastCompleted
  /\ last.error = Err("ECONNRESET")
  /\ requests[last.req].done
  /\ last.effect.calls[1].args = <<Err("ECONNRESET")>>

\* The outcomes delivered so far are one per completed request and none per
\* request in flight; commit itself delivers none; a completion makes its
\* one call on the callback commit was given.
C5_OneOutcome ==
  /\ \A i \in 1..Len(requests) :
       requests[i].delivered = IF requests[i].done THEN 1 ELSE 0
  /\ LastCommitted => requests[Len(requests)].delivered = 0
  /\ (last.kind = "commit" /\ TypeOf(last.args[1]) = "function") =>
       last.threw = "none"
  /\ LastCompleted =>
       /\ Len(last.effect.calls) = 1
       /\ last.effect.calls[1].fn = requests[last.req].callback
       /\ Len(last.effect.calls[1].args) \in {1, 2}

\* The states of the commit that queued request i.
InFlight(i) == IF i <= Len(requests) THEN ~requests[i].done ELSE FALSE
Completed(i) ==
  IF i <= Len(requests)
  THEN requests[i].done /\ requests[i].delivered = 1
  ELSE FALSE

\* C5: every commit made with a callback delivers exactly one outcome, only
\* through the callback when the dispatcher completes, and a commit the
\* dispatcher is to complete does reach Completed.
C5_ExactlyOneOutcome ==
  /\ []C5_OneOutcome
  /\ \A i \in 1..MaxCommits : InFlight(i) ~> Completed(i)

\* Both commits were completed, the latest with a transactional error.
C5_Witness ==
  /\ Len(requests) >= 2
  /\ \A i \in 1..Len(requests) : requests[i].done /\ requests[i].delivered = 1
  /\ LastCompleted /\ ~Truthy(last.error) /\ FailingIn(LastResults) # {}

\* C6: an append call rejected by validation leaves the operation list as it
\* was before the call.
C6_RejectedAppendKeepsOps ==
  LastRejected =>
    /\ ops[last.tx] = last.before
    /\ log[last.tx] = last.before

\* A check with a non-numeric version was rejected on a non-empty list.
C6_Witness ==
  /\ last.kind = "check" /\ last.threw = "version"
  /\ Len(last.before) >= 1
  /\ PathValid(last.args[1])

\* C7: check, setData and remove append version -1 when the version is
\* omitted and exactly v when an integer v is supplied.
C7_VersionAsSupplied ==
  (LastAppended /\ last.kind \in {"check", "setData", "remove"}) =>
    LET version == last.args[Len(last.args)]
        op == ops[last.tx][Len(ops[last.tx])]
    IN /\ version = Undefined => op.version = Num(-1)
       /\ version.t = "number" => op.version = version

\* C8 as claimed: once commit has been invoked no append adds an operation,
\* and the list a request refers to is as it was when commit was called.
C8_NoAppendAfterCommit ==
  /\ (LastAppended /\ commits[last.tx] > 0) => ops[last.tx] = last.before
  /\ \A i \in 1..Len(requests) :
       requests[i].done =>
         PayloadOps(requests[i].request.payload) = requests[i].sent

\* C8: once commit has been invoked, append calls are still accepted and add
\* to the list the request refers to; the list as it was when commit was
\* called stays a prefix of it, no entry of it removed or changed.
C8_CommittedOpsArePrefix ==
  /\ \A i \in 1..Len(requests) :
       IsPrefix(requests[i].sent, PayloadOps(requests[i].request.payload))
  /\ (LastAppended /\ commits[last.tx] > 0) =>
       \A i \in RequestsOf(last.tx) :
         /\ Len(PayloadOps(requests[i].request.payload)) = Len(last.before) + 1
         /\ IsPrefix(requests[i].sent, last.before)

\* An append succeeded while a commit of the same Transaction was in flight.
C8_Witness ==
  /\ LastAppended
  /\ \E i \in RequestsOf(last.tx) :
       /\ ~requests[i].done
       /\ Len(requests[i].sent) >= 1
       /\ Len(PayloadOps(requests[i].request.payload)) > Len(requests[i].sent)

\* C9 as claimed: at most one request is ever handed to the dispatcher for a
\* Transaction.
C9_AtMostOneRequest ==
  \A t \in Txs : Cardinality(RequestsOf(t)) <= 1

\* C9: commit does not consume the Transaction: every commit call made with a
\* function queues one more request that refers to the same operation list,
\* so a Transaction has as many requests as such calls were made on it.
C9_OneRequestPerCommit ==
  /\ \A t \in Txs : Cardinality(RequestsOf(t)) = commits[t]
  /\ (last.kind = "commit" /\ TypeOf(last.args[1]) = "function"
        /\ commits[last.tx] >= 2) =>
       /\ last.threw = "none"
       /\ Len(requests) = last.queued + 1
       /\ Len(requests) \in RequestsOf(last.tx)

\* A second commit of the same Transaction queued a second request.
C9_Witness ==
  /\ LastCommitted
  /\ commits[last.tx] = 2
  /\ Cardinality(RequestsOf(last.tx)) = 2

\* The requests handed to the dispatcher, all Transactions together.
CommitCalls == commits["t1"] + commits["t2"]

\* C10: an append call, accepted or rejected, hands nothing to the
\* dispatcher; no request is queued before the first commit call; a commit
\* call made with a function queues exactly one request, of type multi.
C10_OnlyCommitQueues ==
  /\ LastAppend => Len(requests) = last.queued
  /\ CommitCalls = 0 => requests = <<>>
  /\ Len(requests) = CommitCalls
  /\ (last.kind = "commit" /\ TypeOf(last.args[1]) = "function") =>
       Len(requests) = last.queued + 1
  /\ \A i \in 1..Len(requests) : requests[i].request.header.type = "MULTI"

\* The first commit, made after an accepted append, queued the first
\* request.
C10_Witness ==
  /\ LastCommitted
  /\ last.queued = 0 /\ Len(requests) = 1
  /\ Len(ops[last.tx]) >= 1
  /\ requests[1].request.header.type = "MULTI"

\* C11: commit without a function callback throws at the call, queues no
\* request and leaves the operation list as it was.
C11_CommitNeedsCallback ==
  (last.kind = "commit" /\ TypeOf(last.args[1]) # "function") =>
    /\ last.threw = "callback"
    /\ Len(requests) = last.queued
    /\ \A i \in 1..Len(requests) : TypeOf(requests[i].callback) = "function"
    /\ ops[last.tx] = last.before
    /\ log[last.tx] = last.before

\* commit() was called on a Transaction holding an operation and threw.
C11_Witness ==
  /\ last.kind = "commit"
  /\ last.args = <<Undefined>>
  /\ last.threw = "callback"
  /\ Len(last.before) >= 1
  /\ Len(requests) = 0

\* The last call was create, with a path Path.validate accepts.
LastCreate == last.kind = "create" /\ PathValid(last.args[1])
\* The operation at the end of the list the last call was made on.
LastOp == ops[last.tx][Len(ops[last.tx])]
\* The optional slots (2..4 of create's arguments) holding a given shape.
SlotsOf(shape) == {i \in 2..4 : last.args[i].t = shape}
Max(S) == CHOOSE i \in S : \A j \in S : i >= j
\* The argument in the highest slot of a shape, or else a default.
HighestOf(shape, default) ==
  IF SlotsOf(shape) = {} THEN default ELSE last.args[Max(SlotsOf(shape))]

\* C12: create with a valid path and at most one buffer, one non-empty array
\* and one number, in any of the three optional slots, appends an operation
\* with that buffer (or none) as data, that array (or the open ACL set) as
\* acls and that number (or persistent) as mode.
C12_CreateByShape ==
  (/\ LastCreate
   /\ \A i \in 2..4 : last.args[i] = Undefined \/ last.args[i].t \in Shapes
   /\ \A i \in 2..4 : last.args[i].t = "array" => last.args[i].n > 0
   /\ \A shape \in Shapes : Cardinality(SlotsOf(shape)) <= 1) =>
    /\ last.threw = "none"
    /\ ops[last.tx] =
         Append(last.before,
                [type |-> "CREATE", path |-> last.args[1],
                 data |-> HighestOf("buffer", Undefined),
                 acls |-> HighestOf("array", OPEN_ACL_UNSAFE),
                 mode |-> HighestOf("number", PERSISTENT)])

\* create(path, acls, mode, data): every slot holds another shape than its
\* parameter is named for.
C12_Witness ==
  /\ LastCreate
  /\ last.args = <<Str("/a"), Arr("acls", 1), Num(1), Buf("x")>>
  /\ last.threw = "none"
  /\ LastOp = [type |-> "CREATE", path |-> Str("/a"), data |-> Buf("x"),
               acls |-> Arr("acls", 1), mode |-> Num(1)]

\* C13: create and setData reject a data argument that is neither a buffer
\* nor absent (a string, say), and append nothing.
C13_BadDataRejected ==
  /\ (last.kind = "create" /\ last.args[2].t = "string") =>
       last.threw # "none" /\ ops[last.tx] = last.before
  /\ (last.kind = "setData"
        /\ last.args[2].t \notin {"buffer", "undefined", "null"}) =>
       last.threw # "none" /\ ops[last.tx] = last.before

\* C14: a supplied version (check, setData, remove) or mode (create) that is
\* not a number is rejected and nothing is appended; the default never
\* takes its place.
C14_NonNumericRejected ==
  /\ (last.kind \in {"check", "setData", "remove"}
        /\ last.args[Len(last.args)].t \notin {"undefined", "number"}) =>
       last.threw # "none" /\ ops[last.tx] = last.before
  /\ (last.kind = "create" /\ last.args[4].t = "string") =>
       last.threw # "none" /\ ops[last.tx] = last.before

\* C15 as claimed: create rejects an empty array in any optional slot,
\* whatever the other arguments, and no Create operation of the list has an
\* empty acl-list.
C15_EmptyAclAlwaysRejected ==
  /\ (last.kind = "create" /\ \E i \in 2..4 : last.args[i] = Arr("none", 0)) =>
       last.threw # "none"
  /\ \A t \in Txs : \A k \in 1..Len(ops[t]) :
       ops[t][k].type = "CREATE" => ops[t][k].acls.n > 0

\* C15: create rejects an empty array when it is the last array among the
\* optional slots, whichever slot that is; an empty array that a non-empty
\* array follows in a later slot is overwritten and the call accepted; no
\* Create operation of the list has an empty acl-list.
C15_LastEmptyAclRejected ==
  /\ LastCreate =>
       (last.threw = "acls" <=> HighestOf("array", OPEN_ACL_UNSAFE).n = 0)
  /\ (LastCreate /\ last.threw = "acls") => ops[last.tx] = last.before
  /\ \A t \in Txs : \A k \in 1..Len(ops[t]) :
       ops[t][k].type = "CREATE" => ops[t][k].acls.n > 0

\* create(path, data, mode, []) was rejected for its empty array in the
\* slot named mode.
C15_Witness ==
  /\ LastCreate
  /\ last.args = <<Str("/a"), Buf("x"), Num(1), Arr("none", 0)>>
  /\ last.threw = "acls"
  /\ Len(last.before) >= 1
  /\ ops[last.tx] = last.before

\* C16: when two optional arguments of create have the same shape, the one
\* in the higher slot overwrites the other: the appended operation holds
\* it, and the call raises nothing for the ambiguity.
C16_LastOfShapeWins ==
  (LastCreate /\ \E shape \in Shapes : Cardinality(SlotsOf(shape)) >= 2) =>
    /\ last.threw \in {"none", "acls"}
    /\ HighestOf("array", OPEN_ACL_UNSAFE).n > 0 => last.threw = "none"
    /\ last.threw = "none" =>
         /\ LastOp.data = HighestOf("buffer", Undefined)
         /\ LastOp.acls = HighestOf("array", OPEN_ACL_UNSAFE)
         /\ LastOp.mode = HighestOf("number", PERSISTENT)

\* Two different arrays were passed; the later one is the acl-list.
C16_Witness ==
  /\ LastCreate
  /\ last.args = <<Str("/a"), Arr("acls", 1), Undefined, Arr("more", 2)>>
  /\ last.threw = "none"
  /\ LastOp.acls = Arr("more", 2)

\* C17: commit, and the dispatcher's completion of it with whatever
\* outcome, leave the operation list as it is, and leave the requests
\* already queued referring to the same list.
C17_CommitKeepsOps ==
  /\ [](last.kind = "commit" => ops[last.tx] = last.before)
  /\ [][last'.kind \in {"commit", "complete"} =>
          /\ ops' = ops
          /\ Len(requests') >= Len(requests)
          /\ \A i \in 1..Len(requests) :
               /\ requests'[i].request = requests[i].request
               /\ requests'[i].sent = requests[i].sent]_vars

\* A commit of two operations ended with a transactional error, the list
\* being what it was when commit was called.
C17_Witness ==
  /\ LastCompleted
  /\ ~Truthy(last.error) /\ FailingIn(LastResults) # {}
  /\ Len(requests[last.req].sent) >= 2
  /\ PayloadOps(requests[last.req].request.payload) = requests[last.req].sent

\* The Transaction a queued request was committed from.
TxOf(i) == requests[i].request.payload.ops

\* What the handler hands on, given the completion of its own request.
OutcomeOf(error, response) ==
  IF Truthy(error) THEN <<error>>
  ELSE LET results == response.payload.results IN
    <<IF FailingIn(results) = {} THEN error
      ELSE ExceptionCreate(results[Min(FailingIn(results))].err),
      results>>

\* C18: with commits of several Transactions in flight on one dispatcher,
\* completed in any order, a completion calls the callback of its own
\* commit with the outcome of its own response and touches no other
\* request; an append to one Transaction leaves the lists of the others.
C18_CommitsIsolated ==
  /\ [](\A i \in 1..Len(requests) : requests[i].callback = CallbackOf[TxOf(i)])
  /\ [](LastCompleted =>
          last.effect.calls =
            <<[fn |-> CallbackOf[TxOf(last.req)],
               args |-> OutcomeOf(last.error, last.response)]>>)
  /\ [][last'.kind = "complete" =>
          \A j \in 1..Len(requests) :
            j # last'.req => requests'[j] = requests[j]]_vars
  /\ [][last'.kind \in AppendKinds =>
          \A u \in Txs : u # last'.tx => ops'[u] = ops[u]]_vars

\* Two Transactions holding different lists were committed; the later
\* request was completed first, and now the earlier one, with an error of
\* its own.
C18_Witness ==
  /\ LastCompleted
  /\ last.req = 1 /\ Len(requests) >= 2
  /\ TxOf(1) # TxOf(2)
  /\ requests[2].done
  /\ requests[1].sent # requests[2].sent
  /\ Truthy(last.error)
  /\ last.effect.calls[1].fn = CallbackOf[TxOf(1)]

====
